---- MODULE Spec2Model ----
(***************************************************************************)
(* lightningcss, src/properties/animation.rs: the animation value grammar, *)
(* the `animation` shorthand codec (Animation::parse / Animation::to_css)  *)
(* and the AnimationHandler that reconciles a block's declarations.        *)
(*                                                                         *)
(* CSS text is modelled as a sequence of tokens.  A printer writes tokens  *)
(* and the single spaces it puts between them; the token source hands the  *)
(* parsers the tokens with the white space skipped.                        *)
(***************************************************************************)
EXTENDS Integers, Sequences, FiniteSets, TLC

VARIABLES
  \* ---- AnimationHandler (struct fields, animation.rs:595-606) ----
  names, durations, timing_functions, iteration_counts, directions,
  play_states, delays, fill_modes, timelines, has_any,
  \* the DeclarationList the handler pushes to
  dest,
  \* PropertyHandlerContext.targets: is AnimationTimelineShorthand compatible
  compatible,
  \* history: the declarations handled so far, the number of calls of flush,
  \* and whether finalize has run
  inputs, flush_calls, finalized,
  \* ---- shorthand codec: an Animation value, its printed text, its re-parse
  entry, css, parsed, cpc

hvars == <<names, durations, timing_functions, iteration_counts, directions,
           play_states, delays, fill_modes, timelines, has_any, dest,
           compatible, inputs, flush_calls, finalized>>
cvars == <<entry, css, parsed, cpc>>
vars == <<hvars, cvars>>

----------------------------------------------------------------------------
(* Bounds of the model *)

\* number of declarations handled in one block
MaxDecls == 3
\* iteration counts are the numbers 0..MaxCount and `infinite`
MaxCount == 2
\* number of tokens of a text to parse, and of arguments of a function
MaxTokens == 3

----------------------------------------------------------------------------
(* Tokens *)

Tok(k, s, n, a) == [k |-> k, s |-> s, n |-> n, a |-> a]
IdentTok(s) == Tok("ident", s, 0, <<>>)
StringTok(s) == Tok("string", s, 0, <<>>)
NumberTok(n) == Tok("number", "", n, <<>>)
\* a dimension carries its value in thousandths and its unit
DimensionTok(milli, unit) == Tok("dimension", unit, milli, <<>>)
PercentageTok(n) == Tok("percentage", "", n, <<>>)
FunctionTok(name, args) == Tok("function", name, 0, args)
\* the ' ' a printer writes between two values
Space == Tok("ws", " ", 0, <<>>)

\* the token source skips white space
RECURSIVE Tokenize(_)
Tokenize(text) ==
  IF text = <<>> THEN <<>>
  ELSE IF Head(text).k = "ws" THEN Tokenize(Tail(text))
  ELSE <<Head(text)>> \o Tokenize(Tail(text))

\* ASCII lower-casing, on the identifiers of the model that are not already
\* lower case
Lower(s) ==
  CASE s = "INFINITE" -> "infinite"
    [] s = "Ease" -> "ease"
    [] s = "REVERSE" -> "reverse"
    [] s = "Both" -> "both"
    [] s = "PAUSED" -> "paused"
    [] s = "None" -> "none"
    [] s = "Inherit" -> "inherit"
    [] s = "SCROLL" -> "scroll"
    [] OTHER -> s

EqIgnoreAsciiCase(a, b) == Lower(a) = Lower(b)

\* F(v), with v evaluated once
Once(v, F(_)) == CHOOSE r \in {F(x) : x \in {v}} : TRUE

\* results of a parser: ok, the value, and the position after it
Ok(v, pos) == [ok |-> TRUE, val |-> v, pos |-> pos]
Err(v, pos) == [ok |-> FALSE, val |-> v, pos |-> pos]
AtEnd(input, pos) == pos > Len(input)

\* Option<T>
Some(v) == [some |-> TRUE, v |-> v]
NoneOf(default) == [some |-> FALSE, v |-> default]
UnwrapOr(o, default) == IF o.some THEN o.v ELSE default

\* input.expect_ident_matching(word): the next token is an identifier equal
\* to `word`, ASCII case ignored
ExpectIdentMatching(input, pos, word) ==
  /\ ~AtEnd(input, pos)
  /\ input[pos].k = "ident"
  /\ EqIgnoreAsciiCase(input[pos].s, word)

----------------------------------------------------------------------------
(* Value grammar *)

\* ---- AnimationName ----
NameNone == [t |-> "none", s |-> ""]
NameIdent(s) == [t |-> "ident", s |-> s]
NameString(s) == [t |-> "string", s |-> s]

CssWideKeywords == {"initial", "inherit", "unset", "default", "revert", "revert-layer"}

\* CustomIdent::parse: any identifier but a CSS-wide keyword
CustomIdentParse(input, pos) ==
  IF /\ ~AtEnd(input, pos)
     /\ input[pos].k = "ident"
     /\ Lower(input[pos].s) \notin CssWideKeywords
  THEN Ok(input[pos].s, pos + 1)
  ELSE Err("", pos)

AnimationNameParse(input, pos) ==
  IF ExpectIdentMatching(input, pos, "none") THEN Ok(NameNone, pos + 1)
  ELSE IF ~AtEnd(input, pos) /\ input[pos].k = "string"
       THEN Ok(NameString(input[pos].s), pos + 1)
  ELSE LET ident == CustomIdentParse(input, pos)
       IN IF ident.ok THEN Ok(NameIdent(ident.val), ident.pos)
          ELSE Err(NameNone, pos)

\* variant: the text of a string is compared in its own letter case
AnimationNameToCss_CaseSensitive(name) ==
  CASE name.t = "none" -> <<IdentTok("none")>>
    [] name.t = "ident" -> <<IdentTok(name.s)>>
    [] name.t = "string" ->
         IF name.s \in CssWideKeywords \cup {"none"}
         THEN <<StringTok(name.s)>>
         ELSE <<IdentTok(name.s)>>

\* css modules are off: no reference is registered
AnimationNameToCss(name) ==
  CASE name.t = "none" -> <<IdentTok("none")>>
    [] name.t = "ident" -> <<IdentTok(name.s)>>
    [] name.t = "string" ->
         \* CSS-wide keywords and `none` cannot remove quotes
         IF Lower(name.s) \in CssWideKeywords \cup {"none"}
         THEN <<StringTok(name.s)>>
         ELSE <<IdentTok(name.s)>>

\* ---- Time (values/time.rs), a number of milliseconds ----
TimeParse(input, pos) ==
  IF ~AtEnd(input, pos) /\ input[pos].k = "dimension" /\ input[pos].s = "s"
  THEN Ok(input[pos].n, pos + 1)
  ELSE IF ~AtEnd(input, pos) /\ input[pos].k = "dimension" /\ input[pos].s = "ms"
       THEN Ok(input[pos].n \div 1000, pos + 1)
  ELSE Err(0, pos)

\* 0.1s is shorter than 100ms, anything smaller is longer
TimeToCss(ms) ==
  IF ms = 0 \/ ms >= 100 THEN <<DimensionTok(ms, "s")>>
  ELSE <<DimensionTok(ms * 1000, "ms")>>

TimeIsZero(ms) == ms = 0

\* ---- EasingFunction (values/easing.rs) ----
EasingKeywords ==
  {"linear", "ease", "ease-in", "ease-out", "ease-in-out", "step-start", "step-end"}

\* the easing functions of the model: the keywords and steps(2)
EasingIsIdent(s) == Lower(s) \in EasingKeywords
EasingIsEase(tf) == tf = "ease"

EasingFunctionParse(input, pos) ==
  IF ~AtEnd(input, pos) /\ input[pos].k = "ident" /\ EasingIsIdent(input[pos].s)
  THEN Ok(Lower(input[pos].s), pos + 1)
  ELSE IF /\ ~AtEnd(input, pos)
          /\ input[pos].k = "function"
          /\ Lower(input[pos].s) = "steps"
          /\ input[pos].a = <<NumberTok(2)>>
       THEN Ok("steps(2)", pos + 1)
  ELSE Err("ease", pos)

EasingFunctionToCss(tf) ==
  IF tf = "steps(2)" THEN <<FunctionTok("steps", <<NumberTok(2)>>)>>
  ELSE <<IdentTok(tf)>>

\* ---- AnimationIterationCount ----
CountNumber(n) == [t |-> "number", n |-> n]
CountInfinite == [t |-> "infinite", n |-> 0]
IterationCountDefault == CountNumber(1)

AnimationIterationCountParse(input, pos) ==
  IF ExpectIdentMatching(input, pos, "infinite") THEN Ok(CountInfinite, pos + 1)
  ELSE IF ~AtEnd(input, pos) /\ input[pos].k = "number"
       THEN Ok(CountNumber(input[pos].n), pos + 1)
  ELSE Err(IterationCountDefault, pos)

AnimationIterationCountToCss(c) ==
  IF c.t = "infinite" THEN <<IdentTok("infinite")>> ELSE <<NumberTok(c.n)>>

\* ---- enum_property! keyword enumerations ----
DirectionKeywords == {"normal", "reverse", "alternate", "alternate-reverse"}
PlayStateKeywords == {"running", "paused"}
FillModeKeywords == {"none", "forwards", "backwards", "both"}
ScrollerKeywords == {"root", "nearest", "self"}
ScrollAxisKeywords == {"block", "inline", "x", "y"}

\* $name::parse_string(s): s is one of the keywords, ASCII case ignored
EnumParseString(keywords, s) == Lower(s) \in keywords

\* $name::parse(input): an identifier that is one of the keywords
EnumParse(keywords, input, pos) ==
  IF /\ ~AtEnd(input, pos)
     /\ input[pos].k = "ident"
     /\ EnumParseString(keywords, input[pos].s)
  THEN Ok(Lower(input[pos].s), pos + 1)
  ELSE Err("", pos)

\* $name::to_css: the canonical lower-case keyword
EnumToCss(v) == <<IdentTok(v)>>

DirectionDefault == "normal"
PlayStateDefault == "running"
FillModeDefault == "none"
ScrollerDefault == "nearest"
ScrollAxisDefault == "block"

\* ---- LengthPercentageOrAuto and Size2D (values/size.rs) ----
LpaAuto == [t |-> "auto", n |-> 0]
LpaPx(n) == [t |-> "px", n |-> n]
LpaPercent(n) == [t |-> "percentage", n |-> n]

LengthPercentageOrAutoParse(input, pos) ==
  IF ExpectIdentMatching(input, pos, "auto") THEN Ok(LpaAuto, pos + 1)
  ELSE IF ~AtEnd(input, pos) /\ input[pos].k = "dimension" /\ input[pos].s = "px"
       THEN Ok(LpaPx(input[pos].n \div 1000), pos + 1)
  ELSE IF ~AtEnd(input, pos) /\ input[pos].k = "percentage"
       THEN Ok(LpaPercent(input[pos].n), pos + 1)
  ELSE Err(LpaAuto, pos)

LengthPercentageOrAutoToCss(v) ==
  CASE v.t = "auto" -> <<IdentTok("auto")>>
    [] v.t = "px" -> <<DimensionTok(v.n * 1000, "px")>>
    [] v.t = "percentage" -> <<PercentageTok(v.n)>>

\* Size2D::parse: one value, then the second one or the first again
Size2DParse(input, pos) ==
  LET first == LengthPercentageOrAutoParse(input, pos)
      second == LengthPercentageOrAutoParse(input, first.pos)
  IN IF ~first.ok THEN Err(<<LpaAuto, LpaAuto>>, pos)
     ELSE IF second.ok THEN Ok(<<first.val, second.val>>, second.pos)
     ELSE Ok(<<first.val, first.val>>, first.pos)

\* Size2D::to_css: the second value only when it differs from the first
Size2DToCss(size) ==
  IF size[1] = size[2] THEN LengthPercentageOrAutoToCss(size[1])
  ELSE LengthPercentageOrAutoToCss(size[1]) \o <<Space>>
         \o LengthPercentageOrAutoToCss(size[2])

\* ---- AnimationTimeline ----
InsetDefault == <<LpaAuto, LpaAuto>>
Timeline(t, s, scroller, axis, inset) ==
  [t |-> t, s |-> s, scroller |-> scroller, axis |-> axis, inset |-> inset]
TimelineAuto == Timeline("auto", "", ScrollerDefault, ScrollAxisDefault, InsetDefault)
TimelineNone == Timeline("none", "", ScrollerDefault, ScrollAxisDefault, InsetDefault)
TimelineDashedIdent(s) ==
  Timeline("dashed-ident", s, ScrollerDefault, ScrollAxisDefault, InsetDefault)
\* ScrollTimeline { scroller, axis }
TimelineScroll(scroller, axis) == Timeline("scroll", "", scroller, axis, InsetDefault)
\* ViewTimeline { axis, inset }
TimelineView(axis, inset) == Timeline("view", "", ScrollerDefault, axis, inset)
TimelineDefault == TimelineAuto

\* the dashed identifiers of the model
DashedIdents == {"--tl"}

\* DashedIdent::parse: an identifier that starts with `--`
DashedIdentParse(input, pos) ==
  IF ~AtEnd(input, pos) /\ input[pos].k = "ident" /\ input[pos].s \in DashedIdents
  THEN Ok(input[pos].s, pos + 1)
  ELSE Err("", pos)

\* variant: no `continue` after the axis, the loop makes one pass
ScrollTimelineLoop_OnePass(input, pos, scroller, axis) ==
  LET s == EnumParse(ScrollerKeywords, input, pos)
      scroller1 == IF ~scroller.some /\ s.ok THEN Some(s.val) ELSE scroller
      pos1 == IF ~scroller.some /\ s.ok THEN s.pos ELSE pos
      a == EnumParse(ScrollAxisKeywords, input, pos1)
  IN IF ~axis.some /\ a.ok
     THEN [scroller |-> scroller1, axis |-> Some(a.val), pos |-> a.pos, restarts |-> 0]
     ELSE [scroller |-> scroller1, axis |-> axis, pos |-> pos1, restarts |-> 0]

\* ScrollTimeline::parse, the loop: one pass from `pos` with the two slots
\* (`restarts` counts the `continue` the loop takes)
RECURSIVE ScrollTimelineLoop(_, _, _, _)
ScrollTimelineLoop(input, pos, scroller, axis) ==
  LET s == EnumParse(ScrollerKeywords, input, pos)
      scroller1 == IF ~scroller.some /\ s.ok THEN Some(s.val) ELSE scroller
      pos1 == IF ~scroller.some /\ s.ok THEN s.pos ELSE pos
      a == EnumParse(ScrollAxisKeywords, input, pos1)
  IN IF ~axis.some /\ a.ok
     THEN Once(ScrollTimelineLoop(input, a.pos, scroller1, Some(a.val)),
               LAMBDA r : [r EXCEPT !.restarts = @ + 1])
     ELSE [scroller |-> scroller1, axis |-> axis, pos |-> pos1, restarts |-> 0]

ScrollTimelineParse(input, pos) ==
  LET r == ScrollTimelineLoop(input, pos, NoneOf(ScrollerDefault), NoneOf(ScrollAxisDefault))
  IN Ok(TimelineScroll(UnwrapOr(r.scroller, ScrollerDefault),
                       UnwrapOr(r.axis, ScrollAxisDefault)), r.pos)

ScrollTimelineToCss(tl) ==
  LET scroller == IF tl.scroller # ScrollerDefault THEN EnumToCss(tl.scroller) ELSE <<>>
      needs_space == tl.scroller # ScrollerDefault
  IN IF tl.axis # ScrollAxisDefault
     THEN scroller \o (IF needs_space THEN <<Space>> ELSE <<>>) \o EnumToCss(tl.axis)
     ELSE scroller

\* ViewTimeline::parse, the loop
RECURSIVE ViewTimelineLoop(_, _, _, _)

\* variant: the pass is restarted after the axis as well
ViewTimelineLoop_AxisRestarts(input, pos, axis, inset) ==
  LET a == EnumParse(ScrollAxisKeywords, input, pos)
      i == Size2DParse(input, pos)
  IN IF ~axis.some /\ a.ok
     THEN Once(ViewTimelineLoop(input, a.pos, Some(a.val), inset),
               LAMBDA r : [r EXCEPT !.restarts = @ + 1])
     ELSE IF ~inset.some /\ i.ok
          THEN Once(ViewTimelineLoop(input, i.pos, axis, Some(i.val)),
                    LAMBDA r : [r EXCEPT !.restarts = @ + 1])
     ELSE [axis |-> axis, inset |-> inset, pos |-> pos, restarts |-> 0]

ViewTimelineLoop(input, pos, axis, inset) ==
  LET a == EnumParse(ScrollAxisKeywords, input, pos)
      axis1 == IF ~axis.some /\ a.ok THEN Some(a.val) ELSE axis
      pos1 == IF ~axis.some /\ a.ok THEN a.pos ELSE pos
      i == Size2DParse(input, pos1)
  IN IF ~inset.some /\ i.ok
     THEN Once(ViewTimelineLoop(input, i.pos, axis1, Some(i.val)),
               LAMBDA r : [r EXCEPT !.restarts = @ + 1])
     ELSE [axis |-> axis1, inset |-> inset, pos |-> pos1, restarts |-> 0]

ViewTimelineParse(input, pos) ==
  LET r == ViewTimelineLoop(input, pos, NoneOf(ScrollAxisDefault), NoneOf(InsetDefault))
  IN Ok(TimelineView(UnwrapOr(r.axis, ScrollAxisDefault),
                     UnwrapOr(r.inset, InsetDefault)), r.pos)

ViewTimelineToCss(tl) ==
  LET axis == IF tl.axis # ScrollAxisDefault THEN EnumToCss(tl.axis) ELSE <<>>
      needs_space == tl.axis # ScrollAxisDefault
  IN IF tl.inset[1] # LpaAuto \/ tl.inset[2] # LpaAuto
     THEN axis \o (IF needs_space THEN <<Space>> ELSE <<>>) \o Size2DToCss(tl.inset)
     ELSE axis

\* variant: arguments may be left unread
ParseNestedBlock_NotEntirely(r, args) == r.ok

\* input.parse_nested_block(f): f on the arguments of the function, which it
\* must consume entirely
ParseNestedBlock(r, args) == r.ok /\ r.pos = Len(args) + 1

AnimationTimelineParse(input, pos) ==
  IF ExpectIdentMatching(input, pos, "auto") THEN Ok(TimelineAuto, pos + 1)
  ELSE IF ExpectIdentMatching(input, pos, "none") THEN Ok(TimelineNone, pos + 1)
  ELSE IF DashedIdentParse(input, pos).ok
       THEN Ok(TimelineDashedIdent(DashedIdentParse(input, pos).val), pos + 1)
  ELSE IF AtEnd(input, pos) \/ input[pos].k # "function" THEN Err(TimelineAuto, pos)
  ELSE LET f == Lower(input[pos].s)
           args == Tokenize(input[pos].a)
           scroll == ScrollTimelineParse(args, 1)
           view == ViewTimelineParse(args, 1)
       IN IF f = "scroll" /\ ParseNestedBlock(scroll, args) THEN Ok(scroll.val, pos + 1)
          ELSE IF f = "view" /\ ParseNestedBlock(view, args) THEN Ok(view.val, pos + 1)
          ELSE Err(TimelineAuto, pos)

\* the times the loop of the function's parser took `continue`
TimelineLoopRestarts(input, pos) ==
  IF AtEnd(input, pos) \/ input[pos].k # "function" THEN 0
  ELSE LET f == Lower(input[pos].s)
           args == Tokenize(input[pos].a)
       IN IF f = "scroll"
          THEN ScrollTimelineLoop(args, 1, NoneOf(ScrollerDefault),
                                  NoneOf(ScrollAxisDefault)).restarts
          ELSE IF f = "view"
               THEN ViewTimelineLoop(args, 1, NoneOf(ScrollAxisDefault),
                                     NoneOf(InsetDefault)).restarts
          ELSE 0

AnimationTimelineToCss(tl) ==
  CASE tl.t = "auto" -> <<IdentTok("auto")>>
    [] tl.t = "none" -> <<IdentTok("none")>>
    [] tl.t = "dashed-ident" -> <<IdentTok(tl.s)>>
    [] tl.t = "scroll" -> <<FunctionTok("scroll", ScrollTimelineToCss(tl))>>
    [] tl.t = "view" -> <<FunctionTok("view", ViewTimelineToCss(tl))>>

----------------------------------------------------------------------------
(* Shorthand codec: struct Animation, Animation::parse, Animation::to_css *)

Animation(name, duration, timing_function, iteration_count, direction, play_state, delay, fill_mode, timeline) ==
  [name |-> name, duration |-> duration, timing_function |-> timing_function,
   iteration_count |-> iteration_count, direction |-> direction,
   play_state |-> play_state, delay |-> delay, fill_mode |-> fill_mode,
   timeline |-> timeline]

\* the nine `let mut x = None`
EmptySlots ==
  [name |-> NoneOf(NameNone), duration |-> NoneOf(0),
   timing_function |-> NoneOf("ease"),
   iteration_count |-> NoneOf(IterationCountDefault),
   direction |-> NoneOf(DirectionDefault), play_state |-> NoneOf(PlayStateDefault),
   delay |-> NoneOf(0), fill_mode |-> NoneOf(FillModeDefault),
   timeline |-> NoneOf(TimelineAuto)]

\* variant: a slot that is filled takes the next token again
ParseProp_Refill(slots, var, r) == r.ok

\* parse_prop!($var, $type): the slot is empty and the parser takes the next
\* token(s)
ParseProp(slots, var, r) == ~slots[var].some /\ r.ok

\* loop { parse_prop!(...); ...; break }: a slot filled restarts the pass
RECURSIVE AnimationParseLoop(_, _, _)
AnimationParseLoop(input, pos, slots) ==
  LET time == TimeParse(input, pos)
      easing == EasingFunctionParse(input, pos)
      count == AnimationIterationCountParse(input, pos)
      direction == EnumParse(DirectionKeywords, input, pos)
      fill_mode == EnumParse(FillModeKeywords, input, pos)
      play_state == EnumParse(PlayStateKeywords, input, pos)
      name == AnimationNameParse(input, pos)
      timeline == AnimationTimelineParse(input, pos)
      Continue(var, r) ==
        Once(r, LAMBDA v :
          Once([slots EXCEPT ![var] = Some(v.val)], LAMBDA filled :
            Once(AnimationParseLoop(input, v.pos, filled), LAMBDA l :
              [l EXCEPT !.restarts = @ + 1])))
  IN IF ParseProp(slots, "duration", time) THEN Continue("duration", time)
     ELSE IF ParseProp(slots, "timing_function", easing)
          THEN Continue("timing_function", easing)
     ELSE IF ParseProp(slots, "delay", time) THEN Continue("delay", time)
     ELSE IF ParseProp(slots, "iteration_count", count)
          THEN Continue("iteration_count", count)
     ELSE IF ParseProp(slots, "direction", direction)
          THEN Continue("direction", direction)
     ELSE IF ParseProp(slots, "fill_mode", fill_mode)
          THEN Continue("fill_mode", fill_mode)
     ELSE IF ParseProp(slots, "play_state", play_state)
          THEN Continue("play_state", play_state)
     ELSE IF ParseProp(slots, "name", name) THEN Continue("name", name)
     ELSE IF ParseProp(slots, "timeline", timeline) THEN Continue("timeline", timeline)
     ELSE [slots |-> slots, pos |-> pos, restarts |-> 0]

\* Animation::parse on the tokens of `text`: the value, and the tokens it
\* left unread
AnimationParse(text) ==
  Once(Tokenize(text), LAMBDA input :
    Once(AnimationParseLoop(input, 1, EmptySlots), LAMBDA r :
      [value |-> Animation(UnwrapOr(r.slots.name, NameNone),
                           UnwrapOr(r.slots.duration, 0),
                           UnwrapOr(r.slots.timing_function, "ease"),
                           UnwrapOr(r.slots.iteration_count, CountNumber(1)),
                           UnwrapOr(r.slots.direction, "normal"),
                           UnwrapOr(r.slots.play_state, "running"),
                           UnwrapOr(r.slots.delay, 0),
                           UnwrapOr(r.slots.fill_mode, "none"),
                           UnwrapOr(r.slots.timeline, TimelineAuto)),
       rest |-> SubSeq(input, r.pos, Len(input)),
       restarts |-> r.restarts]))

\* ---- Animation::to_css, field by field; each field writes its value and
\* ---- a ' ' after it

\* variant: the duration is written only when it is itself non-zero
ToCssDuration_DurationOnly(e) ==
  IF ~TimeIsZero(e.duration)
  THEN TimeToCss(e.duration) \o <<Space>> ELSE <<>>

ToCssDuration(e) ==
  IF ~TimeIsZero(e.duration) \/ ~TimeIsZero(e.delay)
  THEN TimeToCss(e.duration) \o <<Space>> ELSE <<>>

ToCssTimingFunction(e) ==
  IF ~EasingIsEase(e.timing_function) \/ EasingIsIdent(e.name.s)
  THEN EasingFunctionToCss(e.timing_function) \o <<Space>> ELSE <<>>

ToCssDelay(e) ==
  IF ~TimeIsZero(e.delay) THEN TimeToCss(e.delay) \o <<Space>> ELSE <<>>

ToCssIterationCount(e) ==
  IF e.iteration_count # IterationCountDefault \/ e.name.s = "infinite"
  THEN AnimationIterationCountToCss(e.iteration_count) \o <<Space>> ELSE <<>>

ToCssDirection(e) ==
  IF e.direction # DirectionDefault \/ EnumParseString(DirectionKeywords, e.name.s)
  THEN EnumToCss(e.direction) \o <<Space>> ELSE <<>>

ToCssFillMode(e) ==
  IF \/ e.fill_mode # FillModeDefault
     \/ (~EqIgnoreAsciiCase(e.name.s, "none")
           /\ EnumParseString(FillModeKeywords, e.name.s))
  THEN EnumToCss(e.fill_mode) \o <<Space>> ELSE <<>>

ToCssPlayState(e) ==
  IF e.play_state # PlayStateDefault \/ EnumParseString(PlayStateKeywords, e.name.s)
  THEN EnumToCss(e.play_state) \o <<Space>> ELSE <<>>

\* variant: the timeline is printed whatever the name
ToCssTimeline_AnyName(e) ==
  IF e.timeline # TimelineDefault
  THEN <<Space>> \o AnimationTimelineToCss(e.timeline) ELSE <<>>

ToCssTimeline(e) ==
  IF e.name # NameNone /\ e.timeline # TimelineDefault
  THEN <<Space>> \o AnimationTimelineToCss(e.timeline) ELSE <<>>

AnimationToCss(e) ==
  (IF e.name = NameNone THEN <<>>
   ELSE ToCssDuration(e) \o ToCssTimingFunction(e) \o ToCssDelay(e)
          \o ToCssIterationCount(e) \o ToCssDirection(e) \o ToCssFillMode(e)
          \o ToCssPlayState(e))
  \o AnimationNameToCss(e.name)
  \o ToCssTimeline(e)

----------------------------------------------------------------------------
(* The Animation values of the model *)

IdentNames ==
  {"foo", "ease", "Ease", "linear", "infinite", "INFINITE", "reverse", "REVERSE",
   "alternate", "forwards", "backwards", "both", "paused", "normal", "auto"}
StringNames == {"foo", "none", "Inherit", "ease"}
AnimationNames ==
  {NameNone} \cup {NameIdent(s) : s \in IdentNames} \cup {NameString(s) : s \in StringNames}
Times == {0, 50, 2000}
Delays == {0, 1000}
EasingFunctions == {"ease", "linear", "steps(2)"}
IterationCounts == {CountNumber(n) : n \in 0..MaxCount} \cup {CountInfinite}
Directions == {"normal", "alternate-reverse"}
PlayStates == {"running", "paused"}
FillModes == {"none", "forwards"}
Timelines ==
  {TimelineAuto, TimelineNone, TimelineDashedIdent("--tl"),
   TimelineScroll("nearest", "block"), TimelineScroll("root", "inline"),
   TimelineView("x", <<LpaAuto, LpaPx(10)>>)}
AnimationDefault ==
  Animation(NameNone, 0, "ease", CountNumber(1), "normal", "running", 0, "none",
            TimelineAuto)
NotParsed == [value |-> AnimationDefault, rest |-> <<>>, restarts |-> 0]

----------------------------------------------------------------------------
(* Declarations: enum Property, as far as the handler reads it *)

\* VendorPrefix: a set of prefix bits; "None" is the unprefixed bit
VendorPrefixNone == {"None"}

\* a typed longhand Property::$property(val, vp), the shorthand
\* Property::Animation(val, vp), or Property::AnimationTimeline(val)
Property(p, val, vp) == [p |-> p, id |-> p, val |-> val, vp |-> vp]
\* Property::Unparsed(UnparsedProperty { property_id, value })
Unparsed(id, vp, tokens) == [p |-> "unparsed", id |-> id, val |-> tokens, vp |-> vp]

\* the eight accumulators, in the order of the struct, and their properties
Categories ==
  <<"names", "durations", "timing_functions", "iteration_counts", "directions",
    "play_states", "delays", "fill_modes">>
CategorySet == {Categories[i] : i \in 1..Len(Categories)}
PropertyOf(c) ==
  CASE c = "names" -> "animation-name"
    [] c = "durations" -> "animation-duration"
    [] c = "timing_functions" -> "animation-timing-function"
    [] c = "iteration_counts" -> "animation-iteration-count"
    [] c = "directions" -> "animation-direction"
    [] c = "play_states" -> "animation-play-state"
    [] c = "delays" -> "animation-delay"
    [] c = "fill_modes" -> "animation-fill-mode"
\* the field of struct Animation a category collects
FieldOf(c) ==
  CASE c = "names" -> "name"
    [] c = "durations" -> "duration"
    [] c = "timing_functions" -> "timing_function"
    [] c = "iteration_counts" -> "iteration_count"
    [] c = "directions" -> "direction"
    [] c = "play_states" -> "play_state"
    [] c = "delays" -> "delay"
    [] c = "fill_modes" -> "fill_mode"

IsAnimationProperty(id) ==
  id \in {"animation-name", "animation-duration", "animation-timing-function",
          "animation-iteration-count", "animation-direction",
          "animation-play-state", "animation-delay", "animation-fill-mode",
          "animation-composition", "animation-timeline", "animation"}

\* context.targets.prefixes(vp, feature) with no targets set: the prefixes
\* themselves
TargetsPrefixes(vp, feature) == vp

----------------------------------------------------------------------------
(* AnimationHandler *)

\* Option<(SmallVec, VendorPrefix)> and Option<SmallVec>
Held(val, vp) == [some |-> TRUE, val |-> val, vp |-> vp]
NotHeld == [some |-> FALSE, val |-> <<>>, vp |-> {}]

\* the handler and the list it writes to, as one value
Self ==
  [names |-> names, durations |-> durations, timing_functions |-> timing_functions,
   iteration_counts |-> iteration_counts, directions |-> directions,
   play_states |-> play_states, delays |-> delays, fill_modes |-> fill_modes,
   timelines |-> timelines, has_any |-> has_any, dest |-> dest,
   flush_calls |-> flush_calls]

\* variant: the dirty flag is left set
HandlerDefault_StillDirty ==
  [names |-> NotHeld, durations |-> NotHeld, timing_functions |-> NotHeld,
   iteration_counts |-> NotHeld, directions |-> NotHeld, play_states |-> NotHeld,
   delays |-> NotHeld, fill_modes |-> NotHeld, timelines |-> NotHeld,
   has_any |-> TRUE, dest |-> <<>>, flush_calls |-> 0]

\* AnimationHandler::default()
HandlerDefault ==
  [names |-> NotHeld, durations |-> NotHeld, timing_functions |-> NotHeld,
   iteration_counts |-> NotHeld, directions |-> NotHeld, play_states |-> NotHeld,
   delays |-> NotHeld, fill_modes |-> NotHeld, timelines |-> NotHeld,
   has_any |-> FALSE, dest |-> <<>>, flush_calls |-> 0]

\* ---- flush ----

\* the eight accumulators are all Some
AllHeld(h) == \A c \in CategorySet : h[c].some

\* variant: the prefixes of the names stand for the intersection
Intersection_OfNames(h) == h.names.vp

Intersection(h) ==
  h.names.vp \cap h.durations.vp \cap h.timing_functions.vp
    \cap h.iteration_counts.vp \cap h.directions.vp \cap h.play_states.vp
    \cap h.delays.vp \cap h.fill_modes.vp

\* variant: the stand-in is `len` times auto whatever the intersection
FlushTimelines_AlwaysAuto(timelines_value, intersection, len) ==
  IF timelines_value.some THEN timelines_value.val
  ELSE [i \in 1..len |-> TimelineAuto]

\* let mut timelines = ...: the held list, or a stand-in
FlushTimelines(timelines_value, intersection, len) ==
  IF timelines_value.some THEN timelines_value.val
  ELSE IF ~(VendorPrefixNone \subseteq intersection)
       \* Prefixed animation shorthand does not support animation-timeline
       THEN [i \in 1..len |-> TimelineAuto]
  ELSE <<>>

\* Only use shorthand syntax if the number of animations matches on all
\* properties
SameLengths(h, intersection, tls) ==
  LET len == Len(h.names.val)
  IN /\ intersection # {}
     /\ Len(h.durations.val) = len
     /\ Len(h.timing_functions.val) = len
     /\ Len(h.iteration_counts.val) = len
     /\ Len(h.directions.val) = len
     /\ Len(h.play_states.val) = len
     /\ Len(h.delays.val) = len
     /\ Len(h.fill_modes.val) = len
     /\ Len(tls) = len

\* variant: the combined syntax is taken as supported by every target
TimelineProperty_IgnoresCompat(tls, intersection, compat) ==
  IF /\ \E i \in 1..Len(tls) : tls[i] # TimelineAuto
     /\ intersection # VendorPrefixNone
  THEN Some(Property("animation-timeline", tls, {}))
  ELSE NoneOf(Property("animation-timeline", <<>>, {}))

\* let timeline_property = ...
TimelineProperty(tls, intersection, compat) ==
  IF /\ \E i \in 1..Len(tls) : tls[i] # TimelineAuto
     /\ (intersection # VendorPrefixNone \/ ~compat)
  THEN Some(Property("animation-timeline", tls, {}))
  ELSE NoneOf(Property("animation-timeline", <<>>, {}))

\* izip!(names.drain(..), ...).map(...).collect()
FlushAnimations(h, tls, timeline_property) ==
  [i \in 1..Len(h.names.val) |->
     Animation(h.names.val[i], h.durations.val[i], h.timing_functions.val[i],
               h.iteration_counts.val[i], h.directions.val[i],
               h.play_states.val[i], h.delays.val[i], h.fill_modes.val[i],
               IF timeline_property.some THEN TimelineAuto ELSE tls[i])]

\* variant: the intersection stays in the prefixes
Drained_KeepsPrefixes(held, intersection) == Held(<<>>, held.vp)

\* after the shorthand is built: drain(..) has emptied the list, and the
\* intersection leaves the prefixes
Drained(held, intersection) == Held(<<>>, held.vp \ intersection)

\* prop!($var, $property)
Prop(h, c) ==
  IF h[c].some /\ h[c].vp # {}
  THEN <<Property(PropertyOf(c), h[c].val, TargetsPrefixes(h[c].vp, PropertyOf(c)))>>
  ELSE <<>>

\* variant: timeline_property is pushed after the prop! of the accumulators
FlushPushes_TimelineLast(shorthand, timeline_property, a, timelines_value) ==
  shorthand
    \o Prop(a, "names") \o Prop(a, "durations") \o Prop(a, "timing_functions")
    \o Prop(a, "iteration_counts") \o Prop(a, "directions")
    \o Prop(a, "play_states") \o Prop(a, "delays") \o Prop(a, "fill_modes")
    \o (IF timeline_property.some THEN <<timeline_property.v>> ELSE <<>>)
    \o (IF timelines_value.some
        THEN <<Property("animation-timeline", timelines_value.val, {})>> ELSE <<>>)

\* the pushes of one flush, in the order of the code: `shorthand` and
\* `timeline_property` are pushed where the shorthand is built, then the
\* prop! of the eight accumulators `a`, then the timeline list still held
FlushPushes(shorthand, timeline_property, a, timelines_value) ==
  shorthand
    \o (IF timeline_property.some THEN <<timeline_property.v>> ELSE <<>>)
    \o Prop(a, "names") \o Prop(a, "durations") \o Prop(a, "timing_functions")
    \o Prop(a, "iteration_counts") \o Prop(a, "directions")
    \o Prop(a, "play_states") \o Prop(a, "delays") \o Prop(a, "fill_modes")
    \o (IF timelines_value.some
        THEN <<Property("animation-timeline", timelines_value.val, {})>> ELSE <<>>)

Flush(h, compat) ==
  IF ~h.has_any THEN [h EXCEPT !.flush_calls = @ + 1]
  ELSE
    LET intersection == Intersection(h)
        tls == FlushTimelines(h.timelines, intersection, Len(h.names.val))
        collapse == AllHeld(h) /\ SameLengths(h, intersection, tls)
        timeline_property ==
          IF collapse THEN TimelineProperty(tls, intersection, compat)
          ELSE NoneOf(Property("animation-timeline", <<>>, {}))
        shorthand ==
          IF collapse
          THEN <<Property("animation",
                          FlushAnimations(h, tls, timeline_property),
                          TargetsPrefixes(intersection, "animation"))>>
          ELSE <<>>
        a == IF collapse
             THEN [c \in CategorySet |-> Drained(h[c], intersection)]
             ELSE [c \in CategorySet |-> h[c]]
        timelines_value == IF collapse THEN NotHeld ELSE h.timelines
    IN [HandlerDefault EXCEPT
          !.dest = h.dest \o FlushPushes(shorthand, timeline_property, a, timelines_value),
          !.flush_calls = h.flush_calls + 1]

\* ---- handle_property ----

\* variant: the `!` before prefixes.contains is missing
NeedsFlush_NoNegation(held, val, vp) ==
  held.some /\ held.val # val /\ vp \subseteq held.vp

\* maybe_flush!: two vendor prefixes of the same property have different
\* values
NeedsFlush(held, val, vp) ==
  held.some /\ held.val # val /\ ~(vp \subseteq held.vp)

MaybeFlush(h, c, val, vp, compat) ==
  IF NeedsFlush(h[c], val, vp) THEN Flush(h, compat) ELSE h

\* variant: `=` for `|=`, the new prefix replaces the held ones
Update_Replace(held, val, vp) == Held(val, vp)

\* property!, after maybe_flush!: update the value and add the prefix
Update(held, val, vp) ==
  IF held.some THEN Held(val, held.vp \cup vp) ELSE Held(val, vp)

\* variant: property! leaves has_any as it is
RecordProperty_NeverDirty(h, c, val, vp, compat) ==
  Once(MaybeFlush(h, c, val, vp, compat), LAMBDA h1 :
    [h1 EXCEPT ![c] = Update(h1[c], val, vp)])

\* property!: has_any is set where the accumulator was empty
RecordProperty(h, c, val, vp, compat) ==
  Once(MaybeFlush(h, c, val, vp, compat), LAMBDA h1 :
    [h1 EXCEPT ![c] = Update(h1[c], val, vp),
               !.has_any = h1.has_any \/ ~h1[c].some])

\* val.iter().map(|b| b.$field.clone()).collect()
Project(val, c) == [i \in 1..Len(val) |-> val[i][FieldOf(c)]]
ProjectTimelines(val) == [i \in 1..Len(val) |-> val[i].timeline]

\* variant: only the names are compared before the shorthand is recorded
MaybeFlushAll_NamesOnly(h, i, val, vp, compat) ==
  MaybeFlush(h, "names", Project(val, "names"), vp, compat)

\* Property::Animation(val, vp): the eight maybe_flush! from category i on
RECURSIVE MaybeFlushAll(_, _, _, _, _)
MaybeFlushAll(h, i, val, vp, compat) ==
  IF i > Len(Categories) THEN h
  ELSE Once(MaybeFlush(h, Categories[i], Project(val, Categories[i]), vp, compat),
            LAMBDA h1 : MaybeFlushAll(h1, i + 1, val, vp, compat))

\* ... and the eight property! from category i on
RECURSIVE RecordAll(_, _, _, _, _)
RecordAll(h, i, val, vp, compat) ==
  IF i > Len(Categories) THEN h
  ELSE Once(RecordProperty(h, Categories[i], Project(val, Categories[i]), vp, compat),
            LAMBDA h1 : RecordAll(h1, i + 1, val, vp, compat))

HandleAnimation(h, val, vp, compat) ==
  Once(MaybeFlushAll(h, 1, val, vp, compat), LAMBDA h1 :
    Once([h1 EXCEPT !.timelines = Held(ProjectTimelines(val), {})], LAMBDA h2 :
      RecordAll(h2, 1, val, vp, compat)))

\* variant: the fill modes are not among the keywords
IsShorthandKeyword_NoFillMode(id) ==
  \/ EnumParseString(DirectionKeywords, id)
  \/ EnumParseString(PlayStateKeywords, id)
  \/ EasingIsIdent(id)
  \/ id = "infinite"
  \/ id = "auto"

\* the keywords an identifier of an unparsed `animation` value may be
IsShorthandKeyword(id) ==
  \/ EnumParseString(DirectionKeywords, id)
  \/ EnumParseString(PlayStateKeywords, id)
  \/ EnumParseString(FillModeKeywords, id)
  \/ EasingIsIdent(id)
  \/ id = "infinite"
  \/ id = "auto"

\* Find an identifier that isn't a keyword and replace it with an
\* AnimationName token so it is scoped in CSS modules
ReplaceNames(tokens) ==
  [i \in 1..Len(tokens) |->
     IF tokens[i].k = "ident" /\ ~IsShorthandKeyword(tokens[i].s)
     THEN Tok("animation-name-ident", tokens[i].s, 0, <<>>)
     ELSE IF tokens[i].k = "string"
          THEN Tok("animation-name-string", tokens[i].s, 0, <<>>)
     ELSE tokens[i]]

\* val.get_prefixed(context.targets, Feature::Animation)
GetPrefixed(u) == [u EXCEPT !.vp = TargetsPrefixes(u.vp, "animation")]

\* variant: the unparsed declaration is pushed without the flush
HandleUnparsedProperty_NoFlush(h, u, compat) ==
  LET val == IF u.id = "animation" THEN [u EXCEPT !.val = ReplaceNames(u.val)] ELSE u
  IN [h EXCEPT !.dest = h.dest \o <<GetPrefixed(val)>>]

HandleUnparsedProperty(h, u, compat) ==
  LET val == IF u.id = "animation" THEN [u EXCEPT !.val = ReplaceNames(u.val)] ELSE u
  IN Once(Flush(h, compat), LAMBDA h1 :
       [h1 EXCEPT !.dest = h1.dest \o <<GetPrefixed(val)>>])

----------------------------------------------------------------------------
(* The declarations of the model *)

PrefixSets == {{"None"}, {"WebKit"}, {"None", "WebKit"}}

\* the prefix sets a longhand declaration of a category may carry
PrefixSetsOf(c) ==
  CASE c = "names" -> PrefixSets
    [] c = "durations" -> {{"None"}, {"WebKit"}}
    [] OTHER -> {{"None"}}

\* the value lists a longhand declaration of a category may carry
ValueLists(c) ==
  CASE c = "names" -> {<<NameIdent("foo")>>}
    [] c = "durations" -> {<<1000>>, <<2000>>, <<3000>>}
    [] c = "timing_functions" -> {<<"linear">>}
    [] c = "iteration_counts" -> {<<CountInfinite>>}
    [] c = "directions" -> {<<"reverse">>}
    [] c = "play_states" -> {<<"paused">>}
    [] c = "delays" -> {<<1000>>}
    [] c = "fill_modes" -> {<<"both">>}

A1 == Animation(NameIdent("foo"), 1000, "ease", CountNumber(1), "normal", "running",
                0, "none", TimelineAuto)
A2 == Animation(NameIdent("bar"), 2000, "linear", CountInfinite, "reverse", "paused",
                1000, "both", TimelineNone)
AnimationLists == {<<A1>>, <<A1, A2>>}
TimelineLists == {<<TimelineAuto>>, <<TimelineNone>>}
UnparsedTokens ==
  <<IdentTok("foo"), Space, IdentTok("ease"), Space, StringTok("bar"), Space,
    FunctionTok("var", <<IdentTok("--x")>>)>>
UnparsedProperties ==
  {Unparsed("animation", {"None"}, UnparsedTokens),
   Unparsed("animation-duration", {"WebKit"}, UnparsedTokens)}
OtherProperties == {Unparsed("color", {"None"}, UnparsedTokens)}

----------------------------------------------------------------------------
(* The handler as a state machine *)

CodecIdle ==
  /\ entry = AnimationDefault
  /\ css = <<>>
  /\ parsed = NotParsed
  /\ cpc = "idle"

Init ==
  /\ names = NotHeld /\ durations = NotHeld /\ timing_functions = NotHeld
  /\ iteration_counts = NotHeld /\ directions = NotHeld /\ play_states = NotHeld
  /\ delays = NotHeld /\ fill_modes = NotHeld /\ timelines = NotHeld
  /\ has_any = FALSE
  /\ dest = <<>>
  /\ compatible \in BOOLEAN
  /\ inputs = <<>>
  /\ flush_calls = 0
  /\ finalized = FALSE
  /\ CodecIdle

\* the handler becomes h, after the declaration `property` was handled
Becomes(h, property) ==
  /\ names' = h.names /\ durations' = h.durations
  /\ timing_functions' = h.timing_functions
  /\ iteration_counts' = h.iteration_counts /\ directions' = h.directions
  /\ play_states' = h.play_states /\ delays' = h.delays
  /\ fill_modes' = h.fill_modes /\ timelines' = h.timelines
  /\ has_any' = h.has_any
  /\ dest' = h.dest
  /\ flush_calls' = h.flush_calls
  /\ inputs' = Append(inputs, property)
  /\ UNCHANGED <<compatible, finalized, cvars>>

MayHandle == cpc = "idle" /\ ~finalized /\ Len(inputs) < MaxDecls

\* Property::AnimationName(val, vp) ... Property::AnimationFillMode(val, vp)
HandleLonghand ==
  /\ MayHandle
  /\ \E c \in CategorySet :
       \E val \in ValueLists(c), vp \in PrefixSetsOf(c) :
         \E h \in {RecordProperty(Self, c, val, vp, compatible)} :
           Becomes(h, Property(PropertyOf(c), val, vp))

\* Property::AnimationTimeline(val)
HandleTimeline ==
  /\ MayHandle
  /\ \E val \in TimelineLists :
       \E h \in {[Self EXCEPT !.timelines = Held(val, {}), !.has_any = TRUE]} :
         Becomes(h, Property("animation-timeline", val, {}))

\* Property::Animation(val, vp)
HandleShorthand ==
  /\ MayHandle
  /\ \E val \in AnimationLists, vp \in PrefixSets :
       \E h \in {HandleAnimation(Self, val, vp, compatible)} :
         Becomes(h, Property("animation", val, vp))

\* Property::Unparsed(val) if is_animation_property(&val.property_id)
HandleUnparsed ==
  /\ MayHandle
  /\ \E u \in UnparsedProperties :
       /\ IsAnimationProperty(u.id)
       /\ \E h \in {HandleUnparsedProperty(Self, u, compatible)} : Becomes(h, u)

\* _ => return false
HandleOther ==
  /\ MayHandle
  /\ \E u \in OtherProperties :
       /\ ~IsAnimationProperty(u.id)
       /\ Becomes(Self, u)

Finalize ==
  /\ cpc = "idle"
  /\ ~finalized
  /\ \E h \in {Flush(Self, compatible)} :
        /\ names' = h.names /\ durations' = h.durations
        /\ timing_functions' = h.timing_functions
        /\ iteration_counts' = h.iteration_counts /\ directions' = h.directions
        /\ play_states' = h.play_states /\ delays' = h.delays
        /\ fill_modes' = h.fill_modes /\ timelines' = h.timelines
        /\ has_any' = h.has_any
        /\ dest' = h.dest
        /\ flush_calls' = h.flush_calls
  /\ finalized' = TRUE
  /\ UNCHANGED <<compatible, inputs, cvars>>

Next ==
  \/ HandleLonghand
  \/ HandleTimeline
  \/ HandleShorthand
  \/ HandleUnparsed
  \/ HandleOther
  \/ Finalize

Spec == Init /\ [][Next]_vars

----------------------------------------------------------------------------
(* The codec as a state machine: print a value, parse the text again *)

HandlerIdle ==
  /\ names = NotHeld /\ durations = NotHeld /\ timing_functions = NotHeld
  /\ iteration_counts = NotHeld /\ directions = NotHeld /\ play_states = NotHeld
  /\ delays = NotHeld /\ fill_modes = NotHeld /\ timelines = NotHeld
  /\ has_any = FALSE
  /\ dest = <<>>
  /\ compatible = TRUE
  /\ inputs = <<>>
  /\ flush_calls = 0
  /\ finalized = FALSE

InitCodec ==
  /\ HandlerIdle
  /\ \E n \in AnimationNames, d \in Times, tf \in EasingFunctions,
        ic \in IterationCounts, dir \in Directions, ps \in PlayStates,
        dl \in Delays, fm \in FillModes, tl \in Timelines :
       entry = Animation(n, d, tf, ic, dir, ps, dl, fm, tl)
  /\ css = <<>>
  /\ parsed = NotParsed
  /\ cpc = "value"

\* Animation::to_css(entry)
ToCss ==
  /\ cpc = "value"
  /\ \E text \in {AnimationToCss(entry)} : css' = text
  /\ cpc' = "printed"
  /\ UNCHANGED <<entry, parsed, hvars>>

\* Animation::parse on the printed text
Parse ==
  /\ cpc = "printed"
  /\ \E r \in {AnimationParse(css)} : parsed' = r
  /\ cpc' = "parsed"
  /\ UNCHANGED <<entry, css, hvars>>

NextCodec == ToCss \/ Parse

SpecCodec == InitCodec /\ [][NextCodec]_vars

----------------------------------------------------------------------------
(* A block that declares each longhand at most once, in the order of the   *)
(* struct, then animation-timeline at most once: the way all eight         *)
(* accumulators come to be held without a shorthand                         *)

OrderedPrefixSets == {{"WebKit"}, {"None", "WebKit"}}

OrderedValueLists(c) ==
  CASE c = "names" -> {<<NameIdent("foo")>>}
    [] c = "durations" -> {<<1000>>, <<1000, 2000>>}
    [] c = "timing_functions" -> {<<"linear">>}
    [] c = "iteration_counts" -> {<<CountInfinite>>}
    [] c = "directions" -> {<<"reverse">>}
    [] c = "play_states" -> {<<"paused">>}
    [] c = "delays" -> {<<1000>>}
    [] c = "fill_modes" -> {<<"both">>}

OrderedTimelineLists == {<<TimelineNone>>, <<TimelineAuto, TimelineNone>>}

\* the place of a property in that order
OrderOf(p) ==
  IF p = "animation-timeline" THEN Len(Categories) + 1
  ELSE CHOOSE i \in 1..Len(Categories) : PropertyOf(Categories[i]) = p

LastOrder == IF inputs = <<>> THEN 0 ELSE OrderOf(inputs[Len(inputs)].p)

HandleLonghandInOrder ==
  /\ ~finalized
  /\ \E i \in 1..Len(Categories) :
       /\ i > LastOrder
       /\ \E val \in OrderedValueLists(Categories[i]), vp \in OrderedPrefixSets :
            \E h \in {RecordProperty(Self, Categories[i], val, vp, compatible)} :
              Becomes(h, Property(PropertyOf(Categories[i]), val, vp))

HandleTimelineLast ==
  /\ ~finalized
  /\ LastOrder <= Len(Categories)
  /\ \E val \in OrderedTimelineLists :
       \E h \in {[Self EXCEPT !.timelines = Held(val, {}), !.has_any = TRUE]} :
         Becomes(h, Property("animation-timeline", val, {}))

NextOrdered ==
  \/ HandleLonghandInOrder
  \/ HandleTimelineLast
  \/ Finalize

SpecOrdered == Init /\ [][NextOrdered]_vars

----------------------------------------------------------------------------
(* The parsers on texts: Animation::parse on the tokens of one entry, and  *)
(* AnimationTimeline::parse on one token                                    *)

\* the sequences of at most n elements of S
SeqsUpTo(S, n) == UNION {[1..k -> S] : k \in 0..n}

\* the tokens of the texts of an entry: two times, an easing keyword, two
\* iteration counts, a keyword of each enum, none, two names, a dashed
\* identifier, a timeline function, and a CSS-wide keyword
AnimationTokens ==
  {DimensionTok(1000, "s"), DimensionTok(2000, "s"), IdentTok("ease"),
   IdentTok("infinite"), NumberTok(2), IdentTok("reverse"), IdentTok("forwards"),
   IdentTok("paused"), IdentTok("none"), IdentTok("foo"), StringTok("bar"),
   IdentTok("--tl"), FunctionTok("scroll", <<IdentTok("root")>>),
   IdentTok("inherit")}

\* a text for each of the nine slots and one token more, and ten times
LongTexts ==
  {<<DimensionTok(1000, "s"), Space, IdentTok("ease"), Space,
     DimensionTok(2000, "s"), Space, IdentTok("infinite"), Space,
     IdentTok("reverse"), Space, IdentTok("forwards"), Space,
     IdentTok("paused"), Space, IdentTok("foo"), Space,
     FunctionTok("scroll", <<IdentTok("root")>>), Space, IdentTok("bar")>>,
   <<FunctionTok("scroll", <<IdentTok("root")>>), IdentTok("foo"),
     IdentTok("paused"), IdentTok("forwards"), IdentTok("reverse"),
     NumberTok(2), IdentTok("ease"), DimensionTok(2000, "s"),
     DimensionTok(1000, "s"), IdentTok("bar")>>,
   [i \in 1..10 |-> DimensionTok(1000, "s")]}

\* the arguments of a timeline function: the keywords of Scroller and
\* ScrollAxis, three insets, and another identifier
TimelineArgTokens ==
  {IdentTok(k) : k \in ScrollerKeywords \cup ScrollAxisKeywords \cup {"auto", "bogus"}}
    \cup {DimensionTok(10000, "px"), PercentageTok(20)}

TimelineTexts ==
  {<<FunctionTok(f, args)>> :
     f \in {"scroll", "view", "SCROLL", "steps"}, args \in SeqsUpTo(TimelineArgTokens, MaxTokens)}
    \cup {<<IdentTok("auto")>>, <<IdentTok("none")>>, <<IdentTok("--tl")>>,
          <<IdentTok("foo")>>, <<NumberTok(2)>>}

InitParse ==
  /\ HandlerIdle
  /\ entry = AnimationDefault
  /\ parsed = NotParsed
  /\ \/ cpc = "animation-text"
        /\ css \in SeqsUpTo(AnimationTokens, MaxTokens) \cup LongTexts
     \/ cpc = "timeline-text" /\ css \in TimelineTexts

\* Animation::parse on the text
ParseAnimation ==
  /\ cpc = "animation-text"
  /\ \E r \in {AnimationParse(css)} : parsed' = r
  /\ cpc' = "animation-parsed"
  /\ UNCHANGED <<entry, css, hvars>>

\* AnimationTimeline::parse on the text
ParseTimeline ==
  /\ cpc = "timeline-text"
  /\ \E r \in {AnimationTimelineParse(css, 1)} :
       parsed' = [ok |-> r.ok, value |-> r.val,
                  rest |-> SubSeq(css, r.pos, Len(css)),
                  restarts |-> TimelineLoopRestarts(css, 1)]
  /\ cpc' = "timeline-parsed"
  /\ UNCHANGED <<entry, css, hvars>>

SpecParse == InitParse /\ [][ParseAnimation \/ ParseTimeline]_vars

\* ---- AnimationName::to_css, then AnimationName::parse ----

\* the names: none, the identifiers of the model, and for strings their
\* texts, the CSS-wide keywords and none, also with a capital
NameValues ==
  {NameNone} \cup {NameIdent(s) : s \in IdentNames \cup {"bar"}}
    \cup {NameString(s) :
            s \in IdentNames \cup CssWideKeywords \cup {"none", "None", "Inherit", "bar"}}

InitName ==
  /\ HandlerIdle
  /\ \E n \in NameValues : entry = [AnimationDefault EXCEPT !.name = n]
  /\ css = <<>>
  /\ parsed = NotParsed
  /\ cpc = "name"

\* AnimationName::to_css(entry.name)
NameToCss ==
  /\ cpc = "name"
  /\ \E text \in {AnimationNameToCss(entry.name)} : css' = text
  /\ cpc' = "name-printed"
  /\ UNCHANGED <<entry, parsed, hvars>>

\* AnimationName::parse on the printed text
NameParse ==
  /\ cpc = "name-printed"
  /\ \E r \in {AnimationNameParse(Tokenize(css), 1)} :
       parsed' = [ok |-> r.ok, value |-> r.val,
                  rest |-> SubSeq(Tokenize(css), r.pos, Len(Tokenize(css))),
                  restarts |-> 0]
  /\ cpc' = "name-parsed"
  /\ UNCHANGED <<entry, css, hvars>>

SpecName == InitName /\ [][NameToCss \/ NameParse]_vars

\* ---- an unparsed declaration of the family, on a token stream ----

\* the tokens of an unparsed value: a name, keywords of the sibling fields
\* in the letter cases of the model, infinite and auto, a string, a number,
\* a function with an identifier for argument, white space
UnparsedTokenSet ==
  {IdentTok("foo"), IdentTok("Ease"), IdentTok("REVERSE"), IdentTok("paused"),
   IdentTok("none"), IdentTok("infinite"), IdentTok("INFINITE"), IdentTok("auto"),
   StringTok("bar"), NumberTok(2), FunctionTok("var", <<IdentTok("foo")>>), Space}

InitUnparsed ==
  /\ HandlerIdle
  /\ entry = AnimationDefault
  /\ parsed = NotParsed
  /\ cpc = "unparsed-text"
  /\ css \in SeqsUpTo(UnparsedTokenSet, MaxTokens)

\* Property::Unparsed(val) if is_animation_property(&val.property_id), with
\* the tokens of css for value, of the shorthand or of one of two longhands
HandleUnparsedText ==
  /\ cpc = "unparsed-text"
  /\ \E id \in {"animation", "animation-name", "animation-timing-function"} :
       /\ IsAnimationProperty(id)
       /\ \E u \in {Unparsed(id, VendorPrefixNone, css)} :
            \E h \in {HandleUnparsedProperty(Self, u, compatible)} :
              /\ names' = h.names /\ durations' = h.durations
              /\ timing_functions' = h.timing_functions
              /\ iteration_counts' = h.iteration_counts
              /\ directions' = h.directions
              /\ play_states' = h.play_states /\ delays' = h.delays
              /\ fill_modes' = h.fill_modes /\ timelines' = h.timelines
              /\ has_any' = h.has_any
              /\ dest' = h.dest
              /\ flush_calls' = h.flush_calls
              /\ inputs' = Append(inputs, u)
  /\ cpc' = "unparsed-handled"
  /\ UNCHANGED <<compatible, finalized, entry, css, parsed>>

SpecUnparsed == InitUnparsed /\ [][HandleUnparsedText]_vars

\* the parsers and the handler: a text is parsed, or a block is handled
SpecAll == (Init \/ InitParse) /\ [][Next \/ ParseAnimation \/ ParseTimeline]_vars

----------------------------------------------------------------------------
(* What a step did *)

\* the step handled a declaration, and which
Handled == Len(inputs') = Len(inputs) + 1
Handling == inputs'[Len(inputs')]
\* the step called flush
Flushed == flush_calls' = flush_calls + 1
\* the declarations the step pushed to dest
Pushed == SubSeq(dest', Len(dest) + 1, Len(dest'))
IsTyped(d) == d.p # "unparsed"
IsShorthand(d) == d.p = "animation"
Accumulators == CategorySet \cup {"timelines"}

----------------------------------------------------------------------------
(* C1 *)

\* C1: for every entry, in all combinations of its nine fields, the text
\* Animation::to_css prints parses, by the greedy Animation::parse, to an
\* entry equal in all nine fields, and nothing of the text is left unread
C1_RoundTrip ==
  cpc = "parsed" => parsed.value = entry /\ parsed.rest = <<>>

----------------------------------------------------------------------------
(* C2 *)

C2_AllHeld == \A c \in CategorySet : Self[c].some
C2_SameLength == \A c \in CategorySet : Len(Self[c].val) = Len(names.val)
C2_Intersection == {p \in names.vp : \A c \in CategorySet : p \in Self[c].vp}
C2_Shorthands == SelectSeq(Pushed, IsShorthand)

\* exactly one shorthand, with the intersection; a longhand that comes with
\* it carries what the intersection leaves of the prefixes of its category
C2_EmitsOneShorthand ==
  /\ Len(C2_Shorthands) = 1
  /\ C2_Shorthands[1].vp = C2_Intersection
  /\ \A i \in 1..Len(Pushed) : \A c \in CategorySet :
       Pushed[i].p = PropertyOf(c) =>
         /\ Pushed[i].vp = Self[c].vp \ C2_Intersection
         /\ Pushed[i].vp # {}

C2_EmitsNoShorthand == Len(C2_Shorthands) = 0

\* a held timeline list has the length of the others; with no timeline list
\* held, the unprefixed property is not in the intersection
C2_TimelineAllows ==
  IF timelines.some THEN Len(timelines.val) = Len(names.val)
  ELSE "None" \notin C2_Intersection

----------------------------------------------------------------------------
(* C3 *)

C3_Inputs ==
  <<Property("animation-duration", <<1000>>, {"None"}),
    Property("animation-duration", <<2000>>, {"WebKit"}),
    Property("animation-duration", <<3000>>, {"None"})>>

\* the declarations of s are those of C3_Inputs
C3_Are(s) ==
  /\ Len(s) = Len(C3_Inputs)
  /\ \A i \in 1..Len(C3_Inputs) :
       /\ s[i].p = C3_Inputs[i].p
       /\ s[i].val = C3_Inputs[i].val
       /\ s[i].vp = C3_Inputs[i].vp

\* C3: duration 1s unprefixed, then 2s with the -webkit- prefix, then 3s
\* unprefixed, then finalize: the output is these three declarations, with
\* their values and prefixes, in that order
C3_OrderPreserved ==
  (C3_Are(inputs) /\ finalized) => C3_Are(dest)

C3_Witness ==
  /\ C3_Are(inputs)
  /\ finalized
  /\ Len(dest) = Len(C3_Inputs)
  /\ flush_calls = Len(C3_Inputs)

----------------------------------------------------------------------------
(* C4 *)

C4_IsLonghand ==
  Handled /\ Handling.p \in {PropertyOf(c) : c \in CategorySet}
C4_Category == CHOOSE c \in CategorySet : PropertyOf(c) = Handling.p
C4_Conflict(held, d) ==
  held.some /\ held.val # d.val /\ ~(d.vp \subseteq held.vp)

\* C4: a longhand of category C with value V and prefixes P flushes exactly
\* when C holds a value other than V and the prefixes C holds do not contain
\* all of P; afterwards C holds V, with the prefixes it held together with P
\* when there was no flush, and with P alone after a flush or when C was
\* empty; another accumulator changes only by being cleared by the flush
C4_LonghandFlushRule ==
  [][C4_IsLonghand =>
       /\ Flushed <=> C4_Conflict(Self[C4_Category], Handling)
       /\ ~Flushed => flush_calls' = flush_calls
       /\ Self'[C4_Category] =
            Held(Handling.val,
                 IF Flushed \/ ~Self[C4_Category].some THEN Handling.vp
                 ELSE Self[C4_Category].vp \cup Handling.vp)
       /\ \A o \in Accumulators \ {C4_Category} :
            \/ Self'[o] = Self[o]
            \/ Flushed /\ Self'[o] = NotHeld]_vars

\* a second duration, with another value and another prefix, flushed the
\* first and is now held alone
C4_Witness ==
  /\ ~finalized
  /\ Len(inputs) = 2
  /\ inputs[1].p = "animation-duration" /\ inputs[2].p = "animation-duration"
  /\ flush_calls = 1
  /\ dest = <<inputs[1]>>
  /\ durations = Held(inputs[2].val, inputs[2].vp)

----------------------------------------------------------------------------
(* C5 *)

C5_Assigns(d, c) == d.p = PropertyOf(c) \/ d.p = "animation"
C5_ValueOf(d, c) == IF d.p = "animation" THEN Project(d.val, c) ELSE d.val
C5_Declared(c, p) ==
  {i \in 1..Len(inputs) : C5_Assigns(inputs[i], c) /\ p \in inputs[i].vp}
C5_Last(S) == CHOOSE i \in S : \A j \in S : j <= i

\* C5: for every held category and every prefix p among its prefixes, the
\* held value is the value of the most recent declaration of that category
\* (a longhand, or the projection of a shorthand) whose prefixes include p
C5_PerPrefixValue ==
  \A c \in CategorySet : Self[c].some =>
    \A p \in Self[c].vp :
      /\ C5_Declared(c, p) # {}
      /\ Self[c].val = C5_ValueOf(inputs[C5_Last(C5_Declared(c, p))], c)

----------------------------------------------------------------------------
(* C6 *)

C6_IsUnparsed ==
  Handled /\ Handling.p = "unparsed" /\ IsAnimationProperty(Handling.id)
C6_Before == SubSeq(Pushed, 1, Len(Pushed) - 1)
C6_Emits(before, c) ==
  \E i \in 1..Len(before) :
    before[i].p \in {"animation", IF c = "timelines" THEN "animation-timeline"
                                  ELSE PropertyOf(c)}

\* C6: an unparsed declaration of the animation family flushes first: every
\* accumulator that was held is emitted before it and all are empty
\* afterwards; then exactly one unparsed declaration is appended; and no
\* step changes what is already in the output, so nothing declared before
\* the unparsed declaration is merged with or emitted after what follows it
C6_UnparsedIsolation ==
  [][/\ Len(dest') >= Len(dest)
     /\ SubSeq(dest', 1, Len(dest)) = dest
     /\ C6_IsUnparsed =>
          /\ Flushed
          /\ \A c \in Accumulators : Self'[c] = NotHeld
          /\ ~has_any'
          /\ Len(Pushed) >= 1
          /\ Pushed[Len(Pushed)].p = "unparsed"
          /\ Pushed[Len(Pushed)].id = Handling.id
          /\ \A before \in {C6_Before} :
               /\ \A i \in 1..Len(before) : IsTyped(before[i])
               /\ \A c \in Accumulators : Self[c].some => C6_Emits(before, c)]_vars

\* a shorthand, then an unparsed declaration: the output is what the
\* shorthand gave, then the unparsed declaration, and nothing is held
C6_Witness ==
  /\ Len(inputs) = 2
  /\ inputs[1].p = "animation"
  /\ inputs[2].p = "unparsed" /\ IsAnimationProperty(inputs[2].id)
  /\ Len(dest) >= 2
  /\ dest[1].p = "animation"
  /\ dest[Len(dest)].p = "unparsed"
  /\ ~has_any /\ names = NotHeld

----------------------------------------------------------------------------
(* C7 *)

C7_Typed == SelectSeq(Pushed, IsTyped)
C7_Collapsed == Len(SelectSeq(Pushed, IsShorthand)) > 0
\* the place of a declaration in the output of one flush; early: the
\* timeline declaration comes right after the shorthand
C7_Place(d, early) ==
  IF d.p = "animation" THEN 0
  ELSE IF d.p = "animation-timeline"
       THEN (IF early THEN 1 ELSE Len(Categories) + 2)
  ELSE OrderOf(d.p) + 1
C7_InOrder(early) ==
  \A typed \in {C7_Typed} :
    \A i \in 1..(Len(typed) - 1) :
      C7_Place(typed[i], early) < C7_Place(typed[i + 1], early)

\* C7 (as the code has it): one flush emits the shorthand first, when it
\* makes one, and the held categories in the order Name, Duration,
\* TimingFunction, IterationCount, Direction, PlayState, Delay, FillMode; a
\* separate Timeline declaration comes after all of them when no shorthand
\* is made, and right after the shorthand, before the longhands of the
\* prefixes that remain, when one is made
C7_EmissionOrder == [][Flushed => C7_InOrder(C7_Collapsed)]_vars

\* C7, as stated: the Timeline declaration comes after all the categories
\* whether or not the collapse fires
C7_EmissionOrderAsStated == [][Flushed => C7_InOrder(FALSE)]_vars

\* one flush made a shorthand, a timeline declaration and a longhand
C7_Witness ==
  /\ flush_calls = 1
  /\ Len(dest) >= 3
  /\ dest[1].p = "animation"
  /\ dest[2].p = "animation-timeline"
  /\ dest[3].p = "animation-name"

----------------------------------------------------------------------------
(* C8 *)

C8_Field(printed, text) == IF printed THEN <<text>> ELSE <<>>
C8_Fields ==
  C8_Field(entry.duration # 0 \/ entry.delay # 0, TimeToCss(entry.duration))
  \o C8_Field(entry.timing_function # "ease" \/ Lower(entry.name.s) \in EasingKeywords,
              EasingFunctionToCss(entry.timing_function))
  \o C8_Field(entry.delay # 0, TimeToCss(entry.delay))
  \o C8_Field(entry.iteration_count # CountNumber(1) \/ entry.name.s = "infinite",
              AnimationIterationCountToCss(entry.iteration_count))
  \o C8_Field(entry.direction # "normal" \/ Lower(entry.name.s) \in DirectionKeywords,
              EnumToCss(entry.direction))
  \o C8_Field(entry.fill_mode # "none"
                \/ (Lower(entry.name.s) # "none"
                      /\ Lower(entry.name.s) \in FillModeKeywords),
              EnumToCss(entry.fill_mode))
  \o C8_Field(entry.play_state # "running" \/ Lower(entry.name.s) \in PlayStateKeywords,
              EnumToCss(entry.play_state))
  \o <<AnimationNameToCss(entry.name)>>
  \o C8_Field(entry.timeline # TimelineAuto, AnimationTimelineToCss(entry.timeline))

RECURSIVE C8_Join(_)
C8_Join(fields) ==
  IF fields = <<>> THEN <<>>
  ELSE IF Len(fields) = 1 THEN fields[1]
  ELSE fields[1] \o <<Space>> \o C8_Join(Tail(fields))

C8_Ease2s ==
  Animation(NameIdent("ease"), 2000, "ease", CountNumber(1), "normal", "running",
            0, "none", TimelineAuto)
C8_Ease2sText ==
  <<DimensionTok(2000, "s"), Space, IdentTok("ease"), Space, IdentTok("ease")>>

\* C8: for an entry whose name is not none, to_css prints, with one space
\* between two fields and none after the last, in the order duration,
\* timing-function, delay, iteration-count, direction, fill-mode, play-state,
\* name: the duration iff duration or delay is not zero; the timing function
\* iff it is not the default or the name is an easing keyword; the delay iff
\* not zero; the iteration count iff not the default or the name is
\* `infinite`; the direction, fill mode and play state iff not the default or
\* the name is one of their keywords (for the fill mode, one that is not
\* none); name ease, duration 2s and the rest default prints `2s ease ease`
C8_PrinterFieldRule ==
  (cpc # "value" /\ entry.name # NameNone) =>
    /\ css = C8_Join(C8_Fields)
    /\ entry = C8_Ease2s => css = C8_Ease2sText

C8_Witness ==
  cpc = "printed" /\ entry = C8_Ease2s /\ css = C8_Ease2sText

----------------------------------------------------------------------------
(* C9 *)

\* C9: for every entry whose name is an identifier, a keyword of an earlier
\* field in any letter case or an ordinary one, with the default timeline
\* and any other seven fields, parsing the printed text gives the name its
\* text and every other field its value
C9_NameCollision ==
  (cpc = "parsed" /\ entry.name.t = "ident" /\ entry.timeline = TimelineDefault)
    => parsed.value = entry

----------------------------------------------------------------------------
(* C10 *)

\* C10: for every entry with a name that is not none and a timeline that is
\* not the default, the timeline printed after the name is taken by the
\* timeline slot when the text is parsed: the parsed timeline is the
\* entry's, and the fill mode, the only other slot `none` may fill, is the
\* entry's as well
C10_TimelineReparse ==
  (cpc = "parsed" /\ entry.name # NameNone /\ entry.timeline # TimelineDefault)
    => /\ parsed.value.timeline = entry.timeline
       /\ parsed.value.fill_mode = entry.fill_mode

----------------------------------------------------------------------------
(* C11 *)

IsTimeline(d) == d.p = "animation-timeline"

\* the collapse fires and a timeline list with a non-auto timeline is held
C11_Case ==
  /\ C2_AllHeld /\ C2_SameLength /\ C2_Intersection # {}
  /\ timelines.some
  /\ Len(timelines.val) = Len(names.val)
  /\ \E i \in 1..Len(timelines.val) : timelines.val[i] # TimelineAuto

\* the intersection is not exactly the unprefixed property, or the targets
\* do not support a timeline in the shorthand
C11_Separate == C2_Intersection # {"None"} \/ ~compatible

\* C11: when the collapse fires while a timeline list with a timeline other
\* than auto is held, the flush emits a separate timeline declaration with
\* the held list, and a shorthand whose entries all have the timeline auto,
\* exactly when the intersection is not the unprefixed property alone or the
\* targets do not support the combined syntax; otherwise it emits no
\* timeline declaration and the i-th entry of the shorthand has the i-th
\* held timeline. Either way each timeline is emitted once
C11_TimelineFolding ==
  [][(Flushed /\ C11_Case) =>
       \A pushed \in {Pushed} :
         \A shorthands \in {SelectSeq(pushed, IsShorthand)} :
           \A tls \in {SelectSeq(pushed, IsTimeline)} :
             /\ Len(shorthands) = 1
             /\ Len(shorthands[1].val) = Len(timelines.val)
             /\ IF C11_Separate
                THEN /\ Len(tls) = 1
                     /\ tls[1].val = timelines.val
                     /\ \A i \in 1..Len(timelines.val) :
                          shorthands[1].val[i].timeline = TimelineAuto
                ELSE /\ Len(tls) = 0
                     /\ \A i \in 1..Len(timelines.val) :
                          shorthands[1].val[i].timeline = timelines.val[i]]_vars

\* an unprefixed shorthand of two entries, the second with the timeline
\* none, for targets without the combined syntax: finalize emitted the
\* shorthand with timelines auto, then the timeline list
C11_Witness ==
  /\ finalized
  /\ ~compatible
  /\ Len(inputs) = 1
  /\ Len(dest) = 2
  /\ dest[1].p = "animation" /\ dest[1].vp = {"None"}
  /\ dest[1].val[2].timeline = TimelineAuto
  /\ dest[2].p = "animation-timeline"
  /\ dest[2].val = <<TimelineAuto, TimelineNone>>

----------------------------------------------------------------------------
(* C12 *)

\* the condition of the collapse, on the state the flush starts from
C12_Collapses ==
  C2_AllHeld /\ C2_SameLength /\ C2_Intersection # {} /\ C2_TimelineAllows

\* the prefixes a flush takes from each category for the shorthand
C12_Taken == IF C12_Collapses THEN C2_Intersection ELSE {}

C12_Longhands(pushed, c) ==
  SelectSeq(pushed, LAMBDA d : d.p = PropertyOf(c))

\* C12: a flush that collapses takes the intersection from the prefix set
\* of each of the eight categories and emits a longhand for a category with
\* exactly the prefixes that remain, or nothing where none remains; a flush
\* that does not collapse emits each held category as a longhand with all
\* its prefixes
C12_LeftoverPrefixes ==
  [][Flushed =>
       \A pushed \in {Pushed} : \A taken \in {C12_Taken} :
         \A c \in CategorySet :
           \A longhands \in {C12_Longhands(pushed, c)} :
             \A remaining \in {Self[c].vp \ taken} :
               IF Self[c].some /\ remaining # {}
               THEN /\ Len(longhands) = 1
                    /\ longhands[1].vp = remaining
               ELSE Len(longhands) = 0]_vars

\* a -webkit- shorthand, then its name again without a prefix: finalize
\* emitted the -webkit- shorthand and the name for what was left, and
\* nothing for the seven categories whose prefixes the shorthand took
C12_Witness ==
  /\ finalized
  /\ Len(inputs) = 2
  /\ inputs[1].p = "animation" /\ inputs[1].vp = {"WebKit"}
  /\ inputs[2].p = "animation-name" /\ inputs[2].vp = {"None"}
  /\ Len(dest) = 2
  /\ dest[1].p = "animation" /\ dest[1].vp = {"WebKit"}
  /\ dest[2].p = "animation-name" /\ dest[2].vp = {"None"}

----------------------------------------------------------------------------
(* C13 *)

C13_IsShorthand == Handled /\ Handling.p = "animation"

\* the projection of a field differs from the list its category holds,
\* and the prefixes the category holds do not contain all of P
C13_Conflict(c) ==
  /\ Self[c].some
  /\ Self[c].val # Project(Handling.val, c)
  /\ ~(Handling.vp \subseteq Self[c].vp)

\* declaration d was made of what was held before the step
C13_FromHeld(d) ==
  /\ IsShorthand(d) =>
        \A c \in CategorySet : Project(d.val, c) = Self[c].val
  /\ IsTimeline(d) => timelines.some /\ d.val = timelines.val
  /\ \A c \in CategorySet :
        d.p = PropertyOf(c) =>
          /\ Self[c].some
          /\ d.vp \subseteq Self[c].vp
          /\ d.val = Project(Handling.val, c) => d.val = Self[c].val

\* C13: handling a shorthand (entries, P) flushes at most once, and exactly
\* when the projection of one of the eight fields differs from the held
\* list of its category while the prefixes the category holds do not
\* contain all of P; the flush comes before anything is recorded, so what
\* it emits is made of the held values and none of the new ones; afterwards
\* each category holds the projection of its field with P added to its
\* prefixes, and the timeline list is the projection of the timelines
C13_ShorthandHandling ==
  [][C13_IsShorthand =>
       /\ flush_calls' \in {flush_calls, flush_calls + 1}
       /\ Flushed <=> \E c \in CategorySet : C13_Conflict(c)
       /\ ~Flushed => dest' = dest
       /\ \A pushed \in {Pushed} :
            \A i \in 1..Len(pushed) : C13_FromHeld(pushed[i])
       /\ \A c \in CategorySet :
            /\ Self[c]'.some
            /\ Self[c]'.val = Project(Handling.val, c)
            /\ Len(Self[c]'.val) = Len(Handling.val)
            /\ Self[c]'.vp =
                 IF Flushed THEN Handling.vp ELSE Self[c].vp \cup Handling.vp
       /\ timelines'.some
       /\ timelines'.val = ProjectTimelines(Handling.val)
       /\ has_any']_vars

\* an unprefixed duration, then a -webkit- shorthand with another duration:
\* the duration was flushed alone, and the shorthand is held
C13_Witness ==
  /\ ~finalized
  /\ Len(inputs) = 2
  /\ inputs[1].p = "animation-duration" /\ inputs[1].vp = {"None"}
  /\ inputs[2].p = "animation" /\ inputs[2].vp = {"WebKit"}
  /\ flush_calls = 1
  /\ Len(dest) = 1
  /\ dest[1].p = "animation-duration"
  /\ dest[1].val # durations.val
  /\ durations.vp = {"WebKit"}
  /\ names.some /\ names.vp = {"WebKit"}
  /\ timelines.some

----------------------------------------------------------------------------
(* C16 *)

\* C16: an entry whose name is none prints as the text `none` and nothing
\* else, whatever its duration, timing function, iteration count,
\* direction, play state, delay, fill mode and timeline
C16_NoneOnly ==
  (cpc # "value" /\ entry.name = NameNone) => css = <<IdentTok("none")>>

\* an entry named none, none of whose other fields has its default, printed
C16_Witness ==
  /\ cpc = "printed"
  /\ entry.name = NameNone
  /\ entry.duration # 0
  /\ entry.timing_function # "ease"
  /\ entry.iteration_count # IterationCountDefault
  /\ entry.direction # DirectionDefault
  /\ entry.play_state # PlayStateDefault
  /\ entry.delay # 0
  /\ entry.fill_mode # FillModeDefault
  /\ entry.timeline # TimelineDefault
  /\ css = <<IdentTok("none")>>

----------------------------------------------------------------------------
(* C17 *)

C17_Empty == \A a \in Accumulators : ~Self[a].some

\* C17: right after a flush the eight accumulators and the timeline list
\* are empty and the dirty flag is clear: a flush for an unparsed
\* declaration or for finalize leaves nothing held, a flush for a conflict
\* leaves held only what the declaration being handled records after it,
\* with its own prefixes; a flush that starts from the empty state emits
\* nothing; after finalize nothing is held
C17_EmptyAfterFlush ==
  [][/\ (Flushed /\ (~Handled \/ C6_IsUnparsed)) => (C17_Empty' /\ ~has_any')
     /\ (Flushed /\ C4_IsLonghand) =>
          /\ has_any'
          /\ \A a \in Accumulators :
               IF a = C4_Category
               THEN Self[a]' = Held(Handling.val, Handling.vp)
               ELSE ~Self[a]'.some
     /\ (Flushed /\ C13_IsShorthand) =>
          /\ has_any'
          /\ \A c \in CategorySet :
               Self[c]' = Held(Project(Handling.val, c), Handling.vp)
          /\ timelines' = Held(ProjectTimelines(Handling.val), {})
     /\ (Flushed /\ C17_Empty) => SelectSeq(Pushed, IsTyped) = <<>>
     /\ finalized' => (C17_Empty' /\ ~has_any')]_vars

\* a name, then an unparsed declaration that flushed it, then finalize,
\* whose flush had nothing to emit
C17_Witness ==
  /\ finalized
  /\ Len(inputs) = 2
  /\ inputs[1].p = "animation-name"
  /\ inputs[2].p = "unparsed"
  /\ flush_calls = 2
  /\ Len(dest) = 2
  /\ dest[1].p = "animation-name"
  /\ dest[2].p = "unparsed"
  /\ C17_Empty
  /\ ~has_any

----------------------------------------------------------------------------
(* C20 *)

\* C20: every longhand a flush emits carries the list of values its
\* category held when the flush started, never an empty list, also when it
\* is emitted for the prefixes left over by the shorthand
C20_ValuesPreserved ==
  [][Flushed =>
       \A pushed \in {Pushed} : \A i \in 1..Len(pushed) :
         \A c \in CategorySet :
           pushed[i].p = PropertyOf(c) =>
             /\ Len(pushed[i].val) > 0
             /\ pushed[i].val = Self[c].val]_vars

----------------------------------------------------------------------------
(* C14 *)

\* the text is a call of the function named f
C14_Calls(f) ==
  cpc = "timeline-parsed" /\ css[1].k = "function" /\ Lower(css[1].s) = f

\* the inset one or two tokens stand for
C14_Value(tok) ==
  IF tok = IdentTok("auto") THEN LpaAuto
  ELSE IF tok = PercentageTok(20) THEN LpaPercent(20)
  ELSE LpaPx(10)
C14_InsetTokens == {IdentTok("auto"), DimensionTok(10000, "px"), PercentageTok(20)}
C14_Insets == SeqsUpTo(C14_InsetTokens, 2) \ {<<>>}
C14_Inset(i) == <<C14_Value(i[1]), C14_Value(i[Len(i)])>>

C14_Is(timeline) == parsed.ok /\ parsed.rest = <<>> /\ parsed.value = timeline

\* C14: scroll(s a) and scroll(a s) parse to the same timeline, with
\* scroller s and axis a, and view(a i) and view(i a) to the same timeline,
\* with axis a and inset i; an argument left out takes its default: the
\* scroller nearest, the axis block, the inset auto auto
C14_ArgumentOrder ==
  /\ C14_Calls("scroll") =>
       \A args \in {css[1].a} :
         /\ args = <<>> => C14_Is(TimelineScroll("nearest", "block"))
         /\ \A s \in ScrollerKeywords :
              args = <<IdentTok(s)>> => C14_Is(TimelineScroll(s, "block"))
         /\ \A a \in ScrollAxisKeywords :
              args = <<IdentTok(a)>> => C14_Is(TimelineScroll("nearest", a))
         /\ \A s \in ScrollerKeywords, a \in ScrollAxisKeywords :
              args \in {<<IdentTok(s), IdentTok(a)>>, <<IdentTok(a), IdentTok(s)>>}
                => C14_Is(TimelineScroll(s, a))
  /\ C14_Calls("view") =>
       \A args \in {css[1].a} :
         /\ args = <<>> => C14_Is(TimelineView("block", <<LpaAuto, LpaAuto>>))
         /\ \A a \in ScrollAxisKeywords :
              args = <<IdentTok(a)>> => C14_Is(TimelineView(a, <<LpaAuto, LpaAuto>>))
         /\ \A i \in C14_Insets :
              args = i => C14_Is(TimelineView("block", C14_Inset(i)))
         /\ \A a \in ScrollAxisKeywords, i \in C14_Insets :
              args \in {<<IdentTok(a)>> \o i, i \o <<IdentTok(a)>>}
                => C14_Is(TimelineView(a, C14_Inset(i)))

\* scroll(inline root) was parsed, to what scroll(root inline) is
C14_Witness ==
  /\ cpc = "timeline-parsed"
  /\ css = <<FunctionTok("scroll", <<IdentTok("inline"), IdentTok("root")>>)>>
  /\ parsed.ok
  /\ parsed.value = TimelineScroll("root", "inline")
  /\ parsed.value = AnimationTimelineParse(
       <<FunctionTok("scroll", <<IdentTok("root"), IdentTok("inline")>>)>>, 1).val

----------------------------------------------------------------------------
(* C15 *)

\* the slots in the order they are offered a token, and the parser of each
C15_Order ==
  <<"duration", "timing_function", "delay", "iteration_count", "direction",
    "fill_mode", "play_state", "name", "timeline">>

C15_Parser(slot, input, pos) ==
  CASE slot \in {"duration", "delay"} -> TimeParse(input, pos)
    [] slot = "timing_function" -> EasingFunctionParse(input, pos)
    [] slot = "iteration_count" -> AnimationIterationCountParse(input, pos)
    [] slot = "direction" -> EnumParse(DirectionKeywords, input, pos)
    [] slot = "fill_mode" -> EnumParse(FillModeKeywords, input, pos)
    [] slot = "play_state" -> EnumParse(PlayStateKeywords, input, pos)
    [] slot = "name" -> AnimationNameParse(input, pos)
    [] slot = "timeline" -> AnimationTimelineParse(input, pos)

\* token by token: the next token goes to the first slot of the order that
\* is empty and whose parser accepts it; the first token that no empty slot
\* accepts ends the assignment
RECURSIVE C15_Greedy(_, _, _)
C15_Greedy(input, pos, slots) ==
  LET accepting ==
        {i \in 1..Len(C15_Order) :
           /\ ~slots[C15_Order[i]].some
           /\ C15_Parser(C15_Order[i], input, pos).ok}
      first == CHOOSE i \in accepting : \A j \in accepting : i <= j
      r == C15_Parser(C15_Order[first], input, pos)
  IN IF accepting = {} THEN [slots |-> slots, pos |-> pos]
     ELSE C15_Greedy(input, r.pos, [slots EXCEPT ![C15_Order[first]] = Some(r.val)])

C15_IsTime(tok) == tok.k = "dimension" /\ tok.s = "s"
C15_IsPaused(tok) == tok = IdentTok("paused")

\* C15: Animation::parse gives each next token to the first slot, in the
\* order duration, timing function, delay, iteration count, direction, fill
\* mode, play state, name, timeline, that is still empty and whose parser
\* accepts the token, and stops at the first token no empty slot accepts;
\* no slot is filled twice; the first time is the duration and the second
\* the delay; a keyword goes to the earlier slot that accepts it while that
\* slot is empty (the first `paused` is the play state, the second the
\* name); a slot left empty has its default
C15_GreedySlots ==
  cpc = "animation-parsed" =>
    \A input \in {Tokenize(css)} :
      \A g \in {C15_Greedy(input, 1, EmptySlots)} :
        \A read \in {SubSeq(input, 1, g.pos - 1)} :
          /\ \A slot \in DOMAIN EmptySlots :
               parsed.value[slot] =
                 IF g.slots[slot].some THEN g.slots[slot].v
                 ELSE AnimationDefault[slot]
          /\ parsed.rest = SubSeq(input, g.pos, Len(input))
          /\ parsed.restarts = Cardinality({slot \in DOMAIN EmptySlots : g.slots[slot].some})
          /\ parsed.restarts = Len(read)
          /\ \A times \in {SelectSeq(read, C15_IsTime)} :
               /\ Len(times) <= 2
               /\ parsed.value.duration = (IF Len(times) >= 1 THEN times[1].n ELSE 0)
               /\ parsed.value.delay = (IF Len(times) >= 2 THEN times[2].n ELSE 0)
          /\ \A paused \in {SelectSeq(read, C15_IsPaused)} :
               /\ Len(paused) >= 1 => parsed.value.play_state = "paused"
               /\ Len(paused) >= 2 => parsed.value.name = NameIdent("paused")

\* `2s paused 1s` was parsed: the duration is 2s, the delay 1s, the play
\* state paused, and the name is none as no token was left for it
C15_Witness ==
  /\ cpc = "animation-parsed"
  /\ css = <<DimensionTok(2000, "s"), IdentTok("paused"), DimensionTok(1000, "s")>>
  /\ parsed.value.duration = 2000
  /\ parsed.value.delay = 1000
  /\ parsed.value.play_state = "paused"
  /\ parsed.value.name = NameNone
  /\ parsed.value.timing_function = "ease"
  /\ parsed.rest = <<>>

----------------------------------------------------------------------------
(* C18 *)

C18_IsScroller(tok) == tok.k = "ident" /\ tok.s \in ScrollerKeywords
C18_IsAxis(tok) == tok.k = "ident" /\ tok.s \in ScrollAxisKeywords
C18_IsInset(tok) == tok \in C14_InsetTokens
C18_Count(args, Is(_)) == Cardinality({i \in 1..Len(args) : Is(args[i])})

\* an argument of scroll() is of neither kind, or of a kind that came before
C18_ScrollUnread(args) ==
  \/ \E i \in 1..Len(args) : ~C18_IsScroller(args[i]) /\ ~C18_IsAxis(args[i])
  \/ C18_Count(args, C18_IsScroller) > 1
  \/ C18_Count(args, C18_IsAxis) > 1

\* the same for view(): its inset is one value or two in a row
C18_ViewUnread(args) ==
  \/ \E i \in 1..Len(args) : ~C18_IsAxis(args[i]) /\ ~C18_IsInset(args[i])
  \/ C18_Count(args, C18_IsAxis) > 1
  \/ C18_Count(args, C18_IsInset) > 2
  \/ \E i, j \in 1..Len(args) :
       C18_IsInset(args[i]) /\ C18_IsInset(args[j]) /\ j > i + 1

\* C18: the parse of a function as a timeline fails, with no timeline for
\* value, when the name of the function is neither scroll nor view (ASCII
\* case ignored), or when one of its arguments is not read by the two
\* parsers of the function: a keyword they do not know, or a second
\* argument of a kind that has its value already; it fails in no other case
C18_FunctionErrors ==
  (cpc = "timeline-parsed" /\ css[1].k = "function") =>
    \A f \in {Lower(css[1].s)} : \A args \in {css[1].a} :
      /\ ~parsed.ok <=>
           \/ f \notin {"scroll", "view"}
           \/ f = "scroll" /\ C18_ScrollUnread(args)
           \/ f = "view" /\ C18_ViewUnread(args)
      /\ ~parsed.ok => parsed.rest = css

\* scroll(root root): the second scroller is not read, the parse failed
C18_Witness ==
  /\ cpc = "timeline-parsed"
  /\ css = <<FunctionTok("scroll", <<IdentTok("root"), IdentTok("root")>>)>>
  /\ ~parsed.ok
  /\ parsed.rest = css

----------------------------------------------------------------------------
(* C19 *)

\* C19: on every text the loop of Animation::parse ends after at most nine
\* restarts, and the loops of ScrollTimeline::parse and ViewTimeline::parse
\* after at most one, a restart taking a token for a slot that was empty;
\* and a block of declarations, with finalize after it, is handled with at
\* most one flush for each declaration and one for finalize
C19_Termination ==
  /\ cpc = "animation-parsed" =>
       /\ parsed.restarts <= Len(C15_Order)
       /\ parsed.restarts <= Len(Tokenize(css)) - Len(parsed.rest)
  /\ cpc = "timeline-parsed" =>
       /\ parsed.restarts <= 1
       /\ (css[1].k = "function" /\ parsed.ok) =>
            parsed.restarts <= Len(css[1].a)
  /\ flush_calls <= Len(inputs) + (IF finalized THEN 1 ELSE 0)

\* a text with a token for each of the nine slots and one more: the loop
\* restarted nine times and left the last token
C19_Witness ==
  /\ cpc = "animation-parsed"
  /\ Len(Tokenize(css)) = Len(C15_Order) + 1
  /\ parsed.restarts = Len(C15_Order)
  /\ Len(parsed.rest) = 1

----------------------------------------------------------------------------
(* C21 *)

\* the prefixes with which the declarations of s assign category c: those
\* of its longhand and those of the shorthand
C21_Prefixes(s, c) ==
  UNION {s[i].vp : i \in {j \in 1..Len(s) : s[j].p \in {PropertyOf(c), "animation"}}}

C21_Held(c) == IF Self[c].some THEN Self[c].vp ELSE {}

\* C21: for each of the eight categories, the prefixes with which the
\* declarations handled so far assign it are those with which the
\* declarations of the output assign it, and those it is still held with;
\* after finalize, when nothing is held, a prefix is in a declaration of
\* the input that assigns the category if and only if it is in one of the
\* output: no prefix is dropped and none is invented
C21_PrefixCoverage ==
  \A c \in CategorySet :
    \A declared \in {C21_Prefixes(inputs, c)} :
      /\ declared = C21_Prefixes(dest, c) \cup C21_Held(c)
      /\ finalized => declared = C21_Prefixes(dest, c)

\* an unprefixed duration, flushed by a -webkit- shorthand with another
\* duration, which finalize emitted: both prefixes are in the output
C21_Witness ==
  /\ finalized
  /\ Len(inputs) = 2
  /\ inputs[1].p = "animation-duration" /\ inputs[1].vp = {"None"}
  /\ inputs[2].p = "animation" /\ inputs[2].vp = {"WebKit"}
  /\ Len(dest) = 2
  /\ dest[1].p = "animation-duration" /\ dest[1].vp = {"None"}
  /\ dest[2].p = "animation" /\ dest[2].vp = {"WebKit"}
  /\ C21_Prefixes(dest, "durations") = {"None", "WebKit"}

----------------------------------------------------------------------------
(* C22 *)

\* C22: in every state the handler is in between two declarations, and
\* after finalize, has_any is true if and only if one of the nine
\* accumulators, the eight categories and the timeline list, holds a
\* value: flush does not return early while something is held
C22_DirtyFlag ==
  has_any <=> \E a \in Accumulators : Self[a].some

\* a shorthand was handled from the empty state: the timeline list was set
\* without the flag, which the first property! then set
C22_Witness ==
  /\ ~finalized
  /\ Len(inputs) = 1
  /\ inputs[1].p = "animation"
  /\ flush_calls = 0
  /\ timelines.some
  /\ \A c \in CategorySet : Self[c].some
  /\ has_any

----------------------------------------------------------------------------
(* C23 *)

\* declaration i of the input is an animation-timeline, a shorthand without
\* the unprefixed property comes after it, and neither an
\* animation-timeline nor a shorthand with the unprefixed property does
C23_KeptTimeline(i) ==
  /\ inputs[i].p = "animation-timeline"
  /\ \E j \in (i + 1)..Len(inputs) :
       inputs[j].p = "animation" /\ "None" \notin inputs[j].vp
  /\ \A k \in (i + 1)..Len(inputs) :
       /\ inputs[k].p # "animation-timeline"
       /\ inputs[k].p = "animation" => "None" \notin inputs[k].vp

\* the output has the timelines tls, in an animation-timeline or in the
\* entries of a shorthand
C23_Emitted(tls) ==
  \E n \in 1..Len(dest) :
    \/ dest[n].p = "animation-timeline" /\ dest[n].val = tls
    \/ dest[n].p = "animation" /\ ProjectTimelines(dest[n].val) = tls

\* C23: a timeline list held from an animation-timeline declaration is
\* still in the output after finalize when a shorthand without the
\* unprefixed property was handled after it, and no animation-timeline and
\* no unprefixed shorthand
C23_TimelineKept ==
  finalized =>
    \A i \in 1..Len(inputs) : C23_KeptTimeline(i) => C23_Emitted(inputs[i].val)

----------------------------------------------------------------------------
(* C24 *)

\* the keywords of the sibling fields, in any letter case
C24_IsKeyword(id) ==
  Lower(id) \in DirectionKeywords \cup PlayStateKeywords \cup FillModeKeywords
                  \cup EasingKeywords

\* what the token becomes in an unparsed shorthand
C24_Substituted(tok) ==
  IF tok.k = "ident" /\ ~C24_IsKeyword(tok.s) /\ tok.s \notin {"infinite", "auto"}
  THEN Tok("animation-name-ident", tok.s, 0, <<>>)
  ELSE IF tok.k = "string" THEN Tok("animation-name-string", tok.s, 0, <<>>)
  ELSE tok

\* C24: in the unparsed declaration emitted for an unparsed shorthand,
\* every identifier that is no direction, play state, fill mode or easing
\* keyword and is not `infinite` or `auto` has become a name reference to
\* that identifier, every string a name reference to that string, and
\* every other token is as it was, at its place; in the one emitted for an
\* unparsed longhand of the family no token has changed
C24_TokenSubstitution ==
  cpc = "unparsed-handled" =>
    \A in \in {inputs[Len(inputs)]} : \A out \in {dest[Len(dest)]} :
      /\ in.val = css
      /\ out.p = "unparsed" /\ out.id = in.id
      /\ Len(out.val) = Len(in.val)
      /\ \A i \in 1..Len(in.val) :
           out.val[i] = IF in.id = "animation" THEN C24_Substituted(in.val[i])
                        ELSE in.val[i]

\* the unparsed shorthand `foo REVERSE "bar"` was handled:
\* foo and "bar" are name references, REVERSE is as it was
C24_Witness ==
  /\ cpc = "unparsed-handled"
  /\ css = <<IdentTok("foo"), IdentTok("REVERSE"), StringTok("bar")>>
  /\ inputs[1].id = "animation"
  /\ dest[1].val = <<Tok("animation-name-ident", "foo", 0, <<>>),
                     IdentTok("REVERSE"),
                     Tok("animation-name-string", "bar", 0, <<>>)>>

----------------------------------------------------------------------------
(* C25 *)

\* the texts a string keeps its quotes for, compared in lower case
C25_Reserved ==
  {"none", "initial", "inherit", "unset", "default", "revert", "revert-layer"}

\* C25: a string name is printed with its quotes exactly when its text is,
\* letter case ignored, none or a CSS-wide keyword, and as an identifier
\* otherwise; the name none is printed as `none`; and the printed text of
\* a name other than none parses to a name, which is not none
C25_NameQuoting ==
  /\ (cpc \in {"name-printed", "name-parsed"} /\ entry.name.t = "string") =>
       css = IF Lower(entry.name.s) \in C25_Reserved
             THEN <<StringTok(entry.name.s)>>
             ELSE <<IdentTok(entry.name.s)>>
  /\ (cpc \in {"name-printed", "name-parsed"} /\ entry.name = NameNone) =>
       css = <<IdentTok("none")>>
  /\ (cpc = "name-parsed" /\ entry.name # NameNone) =>
       /\ parsed.ok
       /\ parsed.rest = <<>>
       /\ parsed.value # NameNone
       /\ parsed.value.s = entry.name.s

\* the string "None" was printed with its quotes and parsed to itself
C25_Witness ==
  /\ cpc = "name-parsed"
  /\ entry.name = NameString("None")
  /\ css = <<StringTok("None")>>
  /\ parsed.ok
  /\ parsed.value = NameString("None")

====
